---- MODULE Spec2Model ----
(***************************************************************************)
(* Model of scaffold.py: the plan builder (build_plan), the file writer    *)
(* (write_file) and the driver loop (main), over a filesystem tree.        *)
(*                                                                         *)
(* A path is a sequence of components relative to the working directory;   *)
(* <<>> is the working directory itself.  A node of the filesystem is      *)
(* absent, a directory, or a regular file with a content.  File contents   *)
(* are opaque to the program: each template is represented by a short      *)
(* excerpt of its text that distinguishes it from the other templates.     *)
(***************************************************************************)
EXTENDS Integers, Sequences, FiniteSets, TLC

\* ------------------------------------------------------------------ bounds
\* Largest number of pre-existing entries other than expected directories
\* (regular files, or directories standing where a file is planned) that
\* the target tree holds before the first invocation.
MaxPre == 1
\* Number of consecutive invocations of the tool on the same root.
MaxRuns == 2

\* ------------------------------------------------------------------- state
VARIABLES
    fs,         \* the filesystem tree: path -> node
    argv_root,  \* --root as given on the command line
    root,       \* main: root
    force,      \* main: args.force
    plan,       \* main: plan
    idx,        \* main: position of the loop in plan.items() (1-based)
    existed,    \* main: existed
    written,    \* main: written
    skipped,    \* main: skipped
    pc,         \* control point of the running process
    stdout,     \* lines printed by the process
    exit_code,  \* exit status of the process, -1 while none
    wf,         \* what write_file did for the current entry
    runs,       \* number of invocations so far
    fs0,        \* the tree as it was when the current invocation started
    prev        \* force flag and outcome of the previous invocation

vars == <<fs, argv_root, root, force, plan, idx, existed, written, skipped,
          pc, stdout, exit_code, wf, runs, fs0, prev>>

\* ------------------------------------------------------------- filesystem
Absent == [kind |-> "absent", content |-> ""]
Dir == [kind |-> "dir", content |-> ""]
File(c) == [kind |-> "file", content |-> c]

\* Content of a pre-existing file that differs from every template.
Other == "user content"

\* pathlib: path.parent
Parent(p) == IF Len(p) = 0 THEN p ELSE SubSeq(p, 1, Len(p) - 1)

\* All proper ancestors of p, the working directory included.
Ancestors(p) == {SubSeq(p, 1, n) : n \in 0..(Len(p) - 1)}

\* Node stored at p; a path outside the tracked tree does not exist.
Node(f, p) == IF p \in DOMAIN f THEN f[p] ELSE Absent

\* Path.exists(): os.stat succeeds.  A missing ancestor (ENOENT) or an
\* ancestor that is a regular file (ENOTDIR) both yield False.
Exists(f, p) ==
    /\ Node(f, p).kind # "absent"
    /\ \A a \in Ancestors(p) : Node(f, a).kind = "dir"

\* Path.is_dir()
IsDir(f, p) == Exists(f, p) /\ Node(f, p).kind = "dir"

\* ---------------------------------------------------------------- templates
render_env_example == "# Copy to .env for docker compose usage."
render_docker_compose == "services: db: backend: frontend:"
render_gitignore == "# Env .env .env.*"
render_readme == "# Hackathon Stack (FastAPI + Postgres + Next.js)"
render_backend_requirements == "fastapi>=0.110"
render_backend_dockerfile == "FROM python:3.12-slim"
render_backend_dockerignore == "__pycache__ *.pyc"
render_backend_main_py == "from app.db import db_ping"
render_backend_db_py == "import psycopg"
render_frontend_package_json == "name: hack-frontend"
render_frontend_dockerfile == "FROM node:20-alpine"
render_frontend_dockerignore == ".next node_modules"
render_frontend_next_config == "const nextConfig = {"
render_frontend_tsconfig == "compilerOptions: {"
render_frontend_next_env == "/// <reference types=next />"
render_frontend_layout_tsx == "export default function RootLayout({"
render_frontend_page_tsx == "'use client';"

\* ------------------------------------------------------------- plan builder
\* A Python dict, kept as the sequence of its (key, value) items in
\* insertion order.
DictKeys(d) == {d[n][1] : n \in 1..Len(d)}

\* The dict that successive assignments d[k] = v of the items leave: the
\* keys in the order of their first assignment, each with the value of its
\* last one.
DictOf(items) ==
    LET N == Len(items)
        firsts == {n \in 1..N : \A m \in 1..(n - 1) : items[m][1] # items[n][1]}
        nth(i) == CHOOSE n \in firsts : Cardinality({m \in firsts : m < n}) = i - 1
        last(k) == CHOOSE n \in 1..N :
                      /\ items[n][1] = k
                      /\ \A m \in (n + 1)..N : items[m][1] # k
    IN  [i \in 1..Cardinality(firsts) |->
            <<items[nth(i)][1], items[last(items[nth(i)][1])][2]>>]

\* The assignments of build_plan in source order: path components below
\* root, and the content assigned.
PlanAssignments ==
    << <<<<"docker-compose.yml">>, render_docker_compose>>,
       <<<<".env.example">>, render_env_example>>,
       <<<<".env">>, render_env_example>>,
       <<<<".gitignore">>, render_gitignore>>,
       <<<<"README.md">>, render_readme>>,
       <<<<"backend", "Dockerfile">>, render_backend_dockerfile>>,
       <<<<"backend", ".dockerignore">>, render_backend_dockerignore>>,
       <<<<"backend", "requirements.txt">>, render_backend_requirements>>,
       <<<<"backend", "app", "__init__.py">>, "">>,
       <<<<"backend", "app", "main.py">>, render_backend_main_py>>,
       <<<<"backend", "app", "db.py">>, render_backend_db_py>>,
       <<<<"frontend", "Dockerfile">>, render_frontend_dockerfile>>,
       <<<<"frontend", ".dockerignore">>, render_frontend_dockerignore>>,
       <<<<"frontend", "package.json">>, render_frontend_package_json>>,
       <<<<"frontend", "next.config.js">>, render_frontend_next_config>>,
       <<<<"frontend", "tsconfig.json">>, render_frontend_tsconfig>>,
       <<<<"frontend", "next-env.d.ts">>, render_frontend_next_env>>,
       <<<<"frontend", "app", "layout.tsx">>, render_frontend_layout_tsx>>,
       <<<<"frontend", "app", "page.tsx">>, render_frontend_page_tsx>> >>

\* The dict the assignments leave, keyed by the path below root (root / a
\* and root / b are the same key exactly when a and b are).
PlanItems == DictOf(PlanAssignments)

\* A dict of paths below root with every key put under r.
Under(r, d) == [n \in 1..Len(d) |-> <<r \o d[n][1], d[n][2]>>]

\* Variant: the backend package marker is filed under the key of main.py.
build_plan_duplicate_key(r) ==
    SelectSeq(Under(r, PlanItems),
              LAMBDA e : e[1] # r \o <<"backend", "app", "__init__.py">>)

\* Variant: only the files missing from the target tree are planned.
build_plan_inspecting(r) ==
    SelectSeq(Under(r, PlanItems), LAMBDA e : ~Exists(fs, e[1]))

build_plan(r) == Under(r, PlanItems)

\* ------------------------------------------------------- filesystem calls
\* os.mkdir(p): the outcome of the system call on tree f.
os_mkdir(f, p) ==
    LET bad == {a \in Ancestors(p) : Node(f, a).kind # "dir"}
        first == CHOOSE a \in bad : \A b \in bad : Len(a) <= Len(b)
    IN  IF bad # {}
        THEN [err |-> IF Node(f, first).kind = "file" THEN "ENOTDIR" ELSE "ENOENT",
              fs |-> f]
        ELSE IF Node(f, p).kind # "absent"
        THEN [err |-> "EEXIST", fs |-> f]
        ELSE [err |-> "", fs |-> [f EXCEPT ![p] = Dir]]

\* Path.mkdir(parents=False, exist_ok=True)
mkdir_leaf(f, p) ==
    LET r == os_mkdir(f, p)
    IN  IF r.err = "" THEN [ok |-> TRUE, fs |-> r.fs]
        ELSE [ok |-> IsDir(f, p), fs |-> f]

\* Variant: exist_ok=False, an existing directory is an error.
mkdir_no_exist_ok(f, p) ==
    LET r == os_mkdir(f, p)
    IN  [ok |-> r.err = "", fs |-> r.fs]

\* Path.mkdir(parents=True, exist_ok=True)
RECURSIVE mkdir(_, _)
mkdir(f, p) ==
    LET r == os_mkdir(f, p)
    IN  IF r.err = "" THEN [ok |-> TRUE, fs |-> r.fs]
        ELSE IF r.err = "ENOENT"
        THEN IF Parent(p) = p THEN [ok |-> FALSE, fs |-> f]
             ELSE LET up == mkdir(f, Parent(p))
                  IN  IF up.ok THEN mkdir_leaf(up.fs, p) ELSE up
        ELSE [ok |-> IsDir(f, p), fs |-> f]

\* Path.write_text(content): open for writing (create or truncate), write.
write_text(f, p, content) ==
    IF /\ \A a \in Ancestors(p) : Node(f, a).kind = "dir"
       /\ Node(f, p).kind # "dir"
    THEN [ok |-> TRUE, fs |-> [f EXCEPT ![p] = File(content)]]
    ELSE [ok |-> FALSE, fs |-> f]

\* ------------------------------------------------------------ initial trees
\* Usage: python scaffold.py  |  python scaffold.py --root ./my-repo
ArgRoots == {".", "./my-repo"}

\* Path(args.root).resolve(), relative to the working directory
resolve(s) == IF s = "." THEN <<>> ELSE <<"my-repo">>

\* The planned paths under r, their directories, and the tracked tree.
PlanPaths(r) == {r \o PlanAssignments[n][1] : n \in 1..Len(PlanAssignments)}
DirPaths(r) == UNION {Ancestors(p) : p \in PlanPaths(r)}
TreePaths(r) == PlanPaths(r) \cup DirPaths(r)

RECURSIVE KSubsets(_, _)
KSubsets(S, k) ==
    IF k = 0 THEN {{}}
    ELSE LET less == KSubsets(S, k - 1)
         IN  less \cup {T \cup {x} : T \in less, x \in S}

\* Sets of existing directories: closed under parent, the working directory
\* always among them.
DirSets(r) ==
    {D \in SUBSET DirPaths(r) : <<>> \in D /\ \A d \in D : Parent(d) \in D}

\* Entries that may pre-exist directly inside the directories of D.
Candidates(r, D) == {p \in TreePaths(r) \ D : Parent(p) \in D}

\* What stands at the pre-existing entries S: a file of the user's, or a
\* directory where a file is planned.  Where a directory is planned only a
\* file can be in the way.  (Files holding template content are what earlier
\* invocations leave behind.)
Fill(r, S) ==
    {g \in [S -> {"other", "dir"}] :
        \A p \in S : p \in DirPaths(r) => g[p] = "other"}

Tree(paths, D, g) ==
    [p \in paths |->
        IF p \in D THEN Dir
        ELSE IF p \in DOMAIN g
        THEN IF g[p] = "other" THEN File(Other) ELSE Dir
        ELSE Absent]

InitTrees(r) ==
    LET paths == TreePaths(r)
    IN  UNION {UNION {{Tree(paths, D, g) : g \in Fill(r, S)} :
                        S \in KSubsets(Candidates(r, D), MaxPre)} :
                 D \in DirSets(r)}

\* The variables of a process before it has run.
InitProcess ==
    /\ force = FALSE
    /\ plan = <<>>
    /\ idx = 0
    /\ existed = FALSE
    /\ written = 0
    /\ skipped = 0
    /\ stdout = <<>>
    /\ exit_code = -1
    /\ wf = "none"
    /\ runs = 0
    /\ prev = [force |-> FALSE, status |-> "none"]

\* The target of the invocations is --root ./my-repo, the root that may not
\* exist yet (an existing ./my-repo behaves as the working directory does).
Init ==
    /\ argv_root = "./my-repo"
    /\ fs \in InitTrees(resolve(argv_root))
    /\ fs0 = fs
    /\ pc = "idle"
    /\ root = <<>>
    /\ InitProcess

\* ----------------------------------------------------------------- actions
\* Current loop item: path, content in plan.items()
path == plan[idx][1]
content == plan[idx][2]

\* Variant: the error is caught and the process exits with status 0.
RaiseSwallowed ==
    /\ pc' = "aborted"
    /\ exit_code' = 0

\* An uncaught OSError: traceback, exit status 1, nothing else printed.
Raise ==
    /\ pc' = "aborted"
    /\ exit_code' = 1

\* Variant: the loop stops one item early.
LoopHeadShort(d, n) == IF n < Len(d) THEN "exists" ELSE "summary"

\* The for statement: the next item of plan.items(), or the end of the loop.
LoopHead(d, n) == IF n <= Len(d) THEN "exists" ELSE "summary"

\* Variant: the directory is made at the path itself.
wf_mkdir_self(p) == p

\* write_file: the directory it creates, path.parent
wf_mkdir_target(p) == Parent(p)

\* Variant: the force flag is inverted.
wf_returns_inverted(f, p, frc) == Exists(f, p) /\ frc

\* Variant: the force flag is ignored.
wf_returns_no_force(f, p, frc) == Exists(f, p)

\* write_file: if path.exists() and not force: return
wf_returns(f, p, frc) == Exists(f, p) /\ ~frc

\* Variant: the skip test of the tally reads the flag the wrong way round.
tally_skips_inverted(ex, frc) == ex /\ frc

\* main: if existed and not args.force
tally_skips(ex, frc) == ex /\ ~frc

\* Variant: the else branch counts only files that did not exist.
tally_elif(w, s, ex, frc) ==
    IF tally_skips(ex, frc) THEN <<w, s + 1>>
    ELSE IF ~ex THEN <<w + 1, s>> ELSE <<w, s>>

\* main: skipped += 1 / written += 1; the result is <<written, skipped>>
tally(w, s, ex, frc) ==
    IF tally_skips(ex, frc) THEN <<w, s + 1>> ELSE <<w + 1, s>>

\* A new process is started on the same --root: argument parsing and
\* root = Path(args.root).resolve().
Invoke(f) ==
    /\ pc \in {"idle", "done", "aborted"}
    /\ runs < MaxRuns
    /\ runs' = runs + 1
    /\ prev' = [force |-> force, status |-> pc]
    /\ fs0' = fs
    /\ force' = f
    /\ root' = resolve(argv_root)
    /\ plan' = <<>>
    /\ idx' = 0
    /\ existed' = FALSE
    /\ written' = 0
    /\ skipped' = 0
    /\ stdout' = <<>>
    /\ exit_code' = -1
    /\ wf' = "none"
    /\ pc' = "root_mkdir"
    /\ UNCHANGED <<fs, argv_root>>

\* root.mkdir(parents=True, exist_ok=True)
RootMkdir ==
    /\ pc = "root_mkdir"
    /\ LET r == mkdir(fs, root)
       IN  /\ fs' = r.fs
           /\ IF r.ok
              THEN pc' = "build" /\ UNCHANGED exit_code
              ELSE Raise
    /\ UNCHANGED <<argv_root, root, force, plan, idx, existed, written,
                   skipped, stdout, wf, runs, fs0, prev>>

\* plan = build_plan(root); written = 0; skipped = 0; the loop starts.
BuildPlan ==
    /\ pc = "build"
    /\ plan' = build_plan(root)
    /\ written' = 0
    /\ skipped' = 0
    /\ idx' = 1
    /\ pc' = LoopHead(build_plan(root), 1)
    /\ UNCHANGED <<fs, argv_root, root, force, existed, stdout, exit_code,
                   wf, runs, fs0, prev>>

\* existed = path.exists(), then write_file is entered.
CheckExisted ==
    /\ pc = "exists"
    /\ existed' = Exists(fs, path)
    /\ wf' = "none"
    /\ pc' = "wf_mkdir"
    /\ UNCHANGED <<fs, argv_root, root, force, plan, idx, written, skipped,
                   stdout, exit_code, runs, fs0, prev>>

\* write_file: path.parent.mkdir(parents=True, exist_ok=True)
WfMkdir ==
    /\ pc = "wf_mkdir"
    /\ LET r == mkdir(fs, wf_mkdir_target(path))
       IN  /\ fs' = r.fs
           /\ IF r.ok
              THEN pc' = "wf_check" /\ UNCHANGED exit_code
              ELSE Raise
    /\ UNCHANGED <<argv_root, root, force, plan, idx, existed, written,
                   skipped, stdout, wf, runs, fs0, prev>>

\* write_file: if path.exists() and not force: return
\*             path.write_text(content, encoding="utf-8")
WfWrite ==
    /\ pc = "wf_check"
    /\ IF wf_returns(fs, path, force)
       THEN /\ wf' = "returned"
            /\ pc' = "tally"
            /\ UNCHANGED <<fs, exit_code>>
       ELSE LET r == write_text(fs, path, content)
            IN  /\ fs' = r.fs
                /\ IF r.ok
                   THEN pc' = "tally" /\ wf' = "wrote" /\ UNCHANGED exit_code
                   ELSE Raise /\ UNCHANGED wf
    /\ UNCHANGED <<argv_root, root, force, plan, idx, existed, written,
                   skipped, stdout, runs, fs0, prev>>

\* if existed and not args.force: skipped += 1 else: written += 1,
\* then the loop moves to its next item.
Tally ==
    /\ pc = "tally"
    /\ written' = tally(written, skipped, existed, force)[1]
    /\ skipped' = tally(written, skipped, existed, force)[2]
    /\ idx' = idx + 1
    /\ pc' = LoopHead(plan, idx + 1)
    /\ UNCHANGED <<fs, argv_root, root, force, plan, existed, stdout,
                   exit_code, wf, runs, fs0, prev>>

\* The summary is printed and main returns 0.
Summary ==
    /\ pc = "summary"
    /\ stdout' = <<"Scaffold complete in:", <<written, skipped>>,
                   "docker compose up --build">>
    /\ exit_code' = 0
    /\ pc' = "done"
    /\ UNCHANGED <<fs, argv_root, root, force, plan, idx, existed, written,
                   skipped, wf, runs, fs0, prev>>

\* The steps of a running process.
Step ==
    \/ RootMkdir
    \/ BuildPlan
    \/ CheckExisted
    \/ WfMkdir
    \/ WfWrite
    \/ Tally
    \/ Summary

Next ==
    \/ \E f \in BOOLEAN : Invoke(f)
    \/ Step

Spec == Init /\ [][Next]_vars

\* ------------------------------------------------- the plan builder alone
\* build_plan applied to either root over any initial tree.
InitPlan ==
    /\ argv_root \in ArgRoots
    /\ fs \in InitTrees(resolve(argv_root))
    /\ fs0 = fs
    /\ pc = "build"
    /\ InitProcess
    /\ root = resolve(argv_root)

NextPlan == BuildPlan

SpecPlan == InitPlan /\ [][NextPlan]_vars

\* ------------------------------------------------------------------ claims
\* Shorthands for the statements below.
InLoop == pc \in {"exists", "wf_mkdir", "wf_check", "tally"}
Stopped == pc \in {"idle", "done", "aborted"}
NPlanned == Len(PlanAssignments)
PlannedPath(n) == root \o PlanAssignments[n][1]
PlannedContent(n) == PlanAssignments[n][2]

\* The root is missing or an empty directory.
EmptyRoot(f) ==
    /\ Node(f, root).kind # "file"
    /\ \A p \in TreePaths(root) : Len(p) > Len(root) => Node(f, p).kind = "absent"

\* Nothing stands in the way of the run: no file where a directory is
\* planned and, when files are to be overwritten, no directory where a file
\* is planned.
NoCollision(f, frc) ==
    /\ \A d \in DirPaths(root) : Node(f, d).kind # "file"
    /\ frc => \A p \in PlanPaths(root) : Node(f, p).kind # "dir"

\* C1: in a run with force=false every planned path that already exists
\* keeps exactly the node it had when the run started, and the entries
\* tallied so far are counted in skipped when they existed and in written
\* when they did not.
C1_SkipLeavesUntouched ==
    (runs >= 1 /\ ~force) =>
        /\ \A n \in 1..NPlanned :
              Exists(fs0, PlannedPath(n)) =>
                  Node(fs, PlannedPath(n)) = Node(fs0, PlannedPath(n))
        /\ idx >= 1 =>
              /\ skipped = Cardinality({n \in 1..(idx - 1) :
                                          Exists(fs0, plan[n][1])})
              /\ written = Cardinality({n \in 1..(idx - 1) :
                                          ~Exists(fs0, plan[n][1])})

C1_Witness ==
    /\ pc = "done"
    /\ ~force
    /\ skipped >= 1
    /\ written >= 1
    /\ \E p \in PlanPaths(root) :
          Node(fs0, p) = File(Other) /\ Node(fs, p) = File(Other)

\* C2: a completed run with force=true leaves every planned path holding
\* its template and counts every planned file as written; after two
\* consecutive completed force=true runs the planned files are as the first
\* of them left them.
C2_ForceRewrites ==
    (pc = "done" /\ force) =>
        /\ \A n \in 1..NPlanned :
              Node(fs, PlannedPath(n)) = File(PlannedContent(n))
        /\ written = Len(plan)
        /\ skipped = 0
        /\ Len(plan) = 19
        /\ (prev.status = "done" /\ prev.force) =>
              \A p \in PlanPaths(root) : Node(fs, p) = Node(fs0, p)

C2_Witness ==
    /\ pc = "done"
    /\ force
    /\ prev.status = "done"
    /\ prev.force
    /\ written = 19

\* C3: a force=false run that follows a completed run reports written = 0
\* and skipped = 19 and leaves the tree as it found it.
C3_SecondRunSkipsAll ==
    (pc = "done" /\ ~force /\ prev.status = "done") =>
        /\ written = 0
        /\ skipped = 19
        /\ Len(plan) = 19
        /\ fs = fs0

C3_Witness ==
    /\ pc = "done"
    /\ ~force
    /\ prev.status = "done"
    /\ ~prev.force
    /\ skipped = 19
    /\ \E p \in PlanPaths(root) : Node(fs, p) = File(Other)

\* C4: written + skipped is the number of plan entries tallied so far while
\* the loop runs, and 19, the number of planned files, once it has ended.
C4_CountsInvariant ==
    /\ (InLoop \/ (pc = "aborted" /\ idx >= 1)) =>
          written + skipped = idx - 1
    /\ pc \in {"summary", "done"} =>
          /\ written + skipped = 19
          /\ Len(plan) = 19

C4_Witness ==
    /\ pc = "done"
    /\ force
    /\ prev.status = "done"
    /\ ~prev.force
    /\ written + skipped = 19

\* C5: a run against a missing or empty root does not abort, and when it is
\* done every planned path holds its template (non-empty except the package
\* marker), .env equals .env.example, written = 19 and skipped = 0.
C5_EmptyRootComplete ==
    (pc \in {"done", "aborted"} /\ EmptyRoot(fs0)) =>
        /\ pc # "aborted"
        /\ pc = "done" =>
              /\ \A n \in 1..NPlanned :
                    /\ Node(fs, PlannedPath(n)) = File(PlannedContent(n))
                    /\ \/ PlannedContent(n) # ""
                       \/ PlanAssignments[n][1] = <<"backend", "app", "__init__.py">>
              /\ Node(fs, root \o <<".env">>) = Node(fs, root \o <<".env.example">>)
              /\ Cardinality(PlanPaths(root)) = 19
              /\ written = 19
              /\ skipped = 0

C5_Witness ==
    /\ pc = "done"
    /\ Node(fs0, root).kind = "absent"
    /\ EmptyRoot(fs0)
    /\ written = 19
    /\ Node(fs, root \o <<"backend", "app", "__init__.py">>) = File("")

\* A file stands at p or above it, so no directory can be made at p.
Blocked(f, p) == \E a \in Ancestors(p) \cup {p} : Node(f, a).kind = "file"

\* The filesystem call the process is about to make cannot succeed.
FailsNow ==
    \/ pc = "root_mkdir" /\ Blocked(fs, root)
    \/ pc = "wf_mkdir" /\ Blocked(fs, Parent(path))
    \/ pc = "wf_check" /\ force /\ Node(fs, path).kind = "dir"

\* The state of an aborted run: status 1, nothing printed, the entries
\* before the failing one that were written hold their template, the
\* entries after it are as the run found them.
AbortedState ==
    /\ exit_code = 1
    /\ stdout = <<>>
    /\ \A n \in 1..NPlanned :
          /\ (n < idx /\ (force \/ ~Exists(fs0, PlannedPath(n)))) =>
                Node(fs, PlannedPath(n)) = File(PlannedContent(n))
          /\ n > idx => Node(fs, PlannedPath(n)) = Node(fs0, PlannedPath(n))

\* C6: a filesystem call that fails aborts the run at that entry; the
\* aborted run has exit status 1 and no summary, keeps what the earlier
\* entries wrote, has touched no later entry, and does nothing more (only a
\* new invocation follows).
C6_AbortNoRollback ==
    /\ [][FailsNow => pc' = "aborted"]_vars
    /\ [](pc = "aborted" => AbortedState)
    /\ [][pc = "aborted" => (pc' = "root_mkdir" /\ runs' = runs + 1)]_vars

C6_Witness ==
    /\ pc = "aborted"
    /\ idx > 1
    /\ idx < NPlanned
    /\ \E n \in 1..(idx - 1) :
          /\ ~Exists(fs0, PlannedPath(n))
          /\ Node(fs, PlannedPath(n)) = File(PlannedContent(n))
    /\ Node(fs, PlannedPath(idx + 1)) = Absent

\* C7: when write_file tests the path and when it writes, all ancestor
\* directories of the path exist, for skipped entries too; a run that meets
\* no collision (directories may be missing or present) does not abort; and
\* a completed run leaves every planned directory existing.
C7_AncestorsEnsured ==
    /\ pc \in {"wf_check", "tally"} =>
          \A a \in Ancestors(path) : Node(fs, a).kind = "dir"
    /\ pc = "aborted" => ~NoCollision(fs0, force)
    /\ pc = "done" => \A d \in DirPaths(root) : Node(fs, d) = Dir

C7_Witness ==
    /\ pc = "done"
    /\ Node(fs0, root) = Dir
    /\ Node(fs0, root \o <<"backend">>) = Absent
    /\ Node(fs0, root \o <<"frontend">>) = Absent
    /\ skipped >= 1
    /\ Node(fs, root \o <<"backend", "app">>) = Dir
    /\ Node(fs, root \o <<"frontend", "app">>) = Dir

\* C8: after build_plan(root) the tree is as before the call and the plan
\* is the fixed list of 19 distinct paths under root with the templates,
\* whatever the tree holds.
C8_PlanDependsOnRootOnly ==
    pc # "build" =>
        /\ fs = fs0
        /\ Len(plan) = 19
        /\ Cardinality(DictKeys(plan)) = 19
        /\ \A n \in 1..Len(plan) :
              /\ plan[n] = <<PlannedPath(n), PlannedContent(n)>>
              /\ Len(plan[n][1]) > Len(root)
              /\ SubSeq(plan[n][1], 1, Len(root)) = root

C8_Witness ==
    /\ pc # "build"
    /\ root = <<"my-repo">>
    /\ Len(plan) = 19
    /\ \E p \in PlanPaths(root) : Exists(fs, p)

\* Progress measure of a run: steps left at most.
Stage ==
    CASE pc \in {"root_mkdir", "exists"} -> 3
      [] pc \in {"build", "wf_mkdir"} -> 2
      [] pc = "wf_check" -> 1
      [] OTHER -> 0
Measure == IF Stopped THEN 0 ELSE 4 * (NPlanned + 1 - idx) + Stage + 1

\* C9: the loop takes the plan entries one at a time in insertion order
\* (docker-compose.yml first, frontend/app/page.tsx last): the position
\* moves by one and only once the entry is tallied, a planned file changes
\* only as the current entry in write_file, entries beyond the position are
\* as the run found them, the loop ends only past the last entry, and every
\* step of a run brings it nearer to its end, which a running process can
\* always take.
C9_SequentialInOrder ==
    /\ [][idx' # idx => \/ pc = "tally" /\ idx' = idx + 1
                        \/ pc = "build" /\ idx' = 1
                        \/ pc' = "root_mkdir" /\ idx' = 0]_vars
    /\ [][\A n \in 1..NPlanned :
            Node(fs', PlannedPath(n)) # Node(fs, PlannedPath(n)) =>
                pc = "wf_check" /\ PlannedPath(n) = path]_vars
    /\ [](InLoop =>
            /\ plan[1][1] = root \o <<"docker-compose.yml">>
            /\ plan[Len(plan)][1] = root \o <<"frontend", "app", "page.tsx">>
            /\ \A n \in (idx + 1)..Len(plan) :
                  Node(fs, plan[n][1]) = Node(fs0, plan[n][1]))
    /\ [](pc \in {"summary", "done"} => idx = Len(plan) + 1 /\ Len(plan) = 19)
    /\ [][~Stopped => Measure' < Measure]_vars
    /\ [](~Stopped => ENABLED Step)

C9_Witness ==
    /\ pc = "summary"
    /\ idx = 20
    /\ written >= 1
    /\ skipped >= 1
    /\ Node(fs, root \o <<"frontend", "app", "page.tsx">>).kind = "file"

\* C10: the existence test of main and the one of write_file agree, and an
\* entry is tallied as skipped exactly when write_file returned without
\* writing (the path is as the run found it) and as written exactly when
\* write_file wrote the template.
C10_TallyAgreesWithDisk ==
    /\ [](pc = "wf_check" => existed = Exists(fs, path))
    /\ [][pc = "tally" =>
            /\ (skipped' = skipped + 1 /\ written' = written) <=> wf = "returned"
            /\ (written' = written + 1 /\ skipped' = skipped) <=> wf = "wrote"
            /\ wf = "returned" => Node(fs, path) = Node(fs0, path)
            /\ wf = "wrote" => Node(fs, path) = File(content)]_vars

C10_Witness ==
    /\ pc = "tally"
    /\ wf = "returned"
    /\ existed
    /\ written >= 1
    /\ Node(fs, path) = File(Other)
====
